---- MODULE Spec2Model ----
(***************************************************************************)
(* Model of the node-to-datastore topology resolver of the vSphere CSI     *)
(* driver (pkg/csi/service/cns/nodes.go) and of the CNS client life cycle  *)
(* of a VirtualCenter (pkg/common/cns-lib/vsphere/cns.go).                 *)
(*                                                                         *)
(* Four specifications share the module:                                   *)
(*   SpecVMs   GetSharedDatastoresForVMs applied to bounded node lists     *)
(*   SpecTopo  GetSharedDatastoresInTopology applied to bounded snapshots  *)
(*   SpecNodes the membership listener, the node registry and a resolver   *)
(*             running concurrently                                        *)
(*   SpecCNS   ConnectCNS / DisconnectCNS on one VirtualCenter             *)
(***************************************************************************)
EXTENDS Integers, Sequences, FiniteSets, TLC

VARIABLES
    nodeVMs,        \* SpecVMs: argument of GetSharedDatastoresForVMs
    vmsResult,      \* SpecVMs: what the call returned, and the accessor calls it made
    allNodes,       \* SpecTopo: what cnsNodeManager.GetAllNodes() answers
    topologyRequirement,    \* SpecTopo: argument of GetSharedDatastoresInTopology
    topoResult,     \* SpecTopo: what the call returned, and the accessor calls it made
    failAt,         \* the accessor call of the run that fails (0: none does)
    CnsClient,      \* SpecCNS: vc.CnsClient, 0 for nil, else the client's number
    Client,         \* SpecCNS: vc.Client, TRUE once Connect has set it
    created,        \* SpecCNS: how many CNS clients cns.NewClient has created
    connectedSince, \* SpecCNS: a ConnectCNS returned nil since the last DisconnectCNS
    lastCall,       \* SpecCNS: the last call on the VirtualCenter and what it found
    nOps,           \* SpecCNS: number of calls made on the VirtualCenter
    registry,       \* SpecNodes: the node manager's entries, node name and VM handle
    lock,           \* SpecNodes: who holds the registry lock
    listener,       \* SpecNodes: the membership callback in progress, or the last one
    resolver,       \* SpecNodes: the resolution request in progress
    panicked        \* SpecNodes: a callback panicked into the event source

varsVMs == <<nodeVMs, vmsResult>>
varsTopo == <<allNodes, topologyRequirement, topoResult>>
varsCNS == <<CnsClient, Client, created, connectedSince, lastCall, nOps>>
varsNodes == <<registry, lock, listener, resolver, panicked>>
vars == <<varsVMs, varsTopo, failAt, varsCNS, varsNodes>>

(***************************************************************************)
(* Bounds                                                                  *)
(***************************************************************************)
\* longest node list handed to GetSharedDatastoresForVMs
MaxNodes == 3
\* longest accessible-datastore list a node reports
MaxDatastores == 2

(***************************************************************************)
(* Values                                                                  *)
(***************************************************************************)
\* datastore URLs (DatastoreInfo.Info.Url)
URLs == {"x", "y", "z"}

\* the nil error
NoErr == [kind |-> "nil", node |-> 0]
\* an error returned by an accessor call on node n
AccessorErr(n) == [kind |-> "accessor", node |-> n]
\* fmt.Errorf("No shared datastores found for nodeVm: %+v", nodeVM)
NoSharedDatastoresErr(n) == [kind |-> "NoSharedDatastores", node |-> n]

\* a nil slice: the zero value of []*cnsvsphere.DatastoreInfo
NilSlice == <<>>

\* duplicate-free URL sequences of length at most n: a node reports each
\* datastore it can reach once
UrlLists(n) ==
    UNION { { s \in [1..k -> URLs] : \A i, j \in 1..k : s[i] = s[j] => i = j } : k \in 0..n }

\* A node VM handle together with what the accessor answers for it.
VM(i, z, us) == [id |-> i, zone |-> z, urls |-> us]

(***************************************************************************)
(* The accessor (external collaborator)                                    *)
(***************************************************************************)
\* nodeVM.GetAllAccessibleDatastores(ctx): the DatastoreInfo objects of the
\* node, each carrying its URL and the node whose call produced the object.
\* callNo numbers the accessor calls of the run.
GetAllAccessibleDatastores(nodeVM, callNo) ==
    IF callNo = failAt
    THEN [ds |-> NilSlice, err |-> AccessorErr(nodeVM.id)]
    ELSE [ds |-> [i \in 1..Len(nodeVM.urls) |-> [url |-> nodeVM.urls[i], host |-> nodeVM.id]],
          err |-> NoErr]

\* the record of one accessor call
DsCall(nodeVM) == [op |-> "GetAllAccessibleDatastores", node |-> nodeVM.id, list |-> "none"]

(***************************************************************************)
(* GetSharedDatastoresForVMs                                               *)
(***************************************************************************)
\* mutant: the intersection walks the new node's list and keeps its objects
IntersectAccessibleOrder(sharedDatastores, accessibleDatastores) ==
    IF Len(sharedDatastores) = 0
    THEN accessibleDatastores
    ELSE SelectSeq(accessibleDatastores,
                   LAMBDA accessibleDs :
                       \E i \in 1..Len(sharedDatastores) :
                           sharedDatastores[i].url = accessibleDs.url)

\* nodes.go 226-241: the running shared list after one more node
IntersectStep(sharedDatastores, accessibleDatastores) ==
    IF Len(sharedDatastores) = 0
    THEN accessibleDatastores
    ELSE SelectSeq(sharedDatastores,
                   LAMBDA sharedDs :
                       \E i \in 1..Len(accessibleDatastores) :
                           sharedDs.url = accessibleDatastores[i].url)

\* mutant: the loop goes on with an empty running list
NeverEmpty(sharedDatastores) == FALSE

\* nodes.go 242: the short-circuit test after each node
NoSharedLeft(sharedDatastores) == Len(sharedDatastores) = 0

\* nodes.go 220-245: the loop from node i on, with the running list and the
\* accessor calls made so far
RECURSIVE ForVMsLoop(_, _, _, _)
ForVMsLoop(vms, i, sharedDatastores, calls) ==
    IF i > Len(vms)
    THEN [ds |-> sharedDatastores, err |-> NoErr, calls |-> calls]
    ELSE LET nodeVM == vms[i]
             got    == GetAllAccessibleDatastores(nodeVM, Len(calls) + 1)
             calls2 == Append(calls, DsCall(nodeVM))
         IN  IF got.err # NoErr
             THEN [ds |-> NilSlice, err |-> got.err, calls |-> calls2]
             ELSE LET shared2 == IntersectStep(sharedDatastores, got.ds)
                  IN  IF NoSharedLeft(shared2)
                      THEN [ds |-> NilSlice, err |-> NoSharedDatastoresErr(nodeVM.id),
                            calls |-> calls2]
                      ELSE ForVMsLoop(vms, i + 1, shared2, calls2)

\* mutant: an empty node list is rejected
ForVMsRejectEmpty(vms, calls) ==
    IF Len(vms) = 0
    THEN [ds |-> NilSlice, err |-> [kind |-> "EmptyNodeList", node |-> 0], calls |-> calls]
    ELSE ForVMsLoop(vms, 1, NilSlice, calls)

\* nodes.go 218-247; calls are the accessor calls the run made before
GetSharedDatastoresForVMs(vms, calls) == ForVMsLoop(vms, 1, NilSlice, calls)

(***************************************************************************)
(* GetSharedDatastoresInTopology                                           *)
(***************************************************************************)
\* csitypes.LabelZoneFailureDomain, csitypes.LabelRegionFailureDomain
LabelZoneFailureDomain == "failure-domain.beta.kubernetes.io/zone"
LabelRegionFailureDomain == "failure-domain.beta.kubernetes.io/region"

\* the region every node VM of the model is tagged with
VMRegion == "us"

\* nodeVM.IsInZoneRegion(ctx, zoneCategoryName, regionCategoryName, zoneValue,
\* regionValue): an empty value is a wildcard
IsInZoneRegion(nodeVM, zoneValue, regionValue, callNo) ==
    IF callNo = failAt
    THEN [in |-> FALSE, err |-> AccessorErr(nodeVM.id)]
    ELSE [in |-> /\ (zoneValue = "" \/ nodeVM.zone = zoneValue)
                 /\ (regionValue = "" \/ VMRegion = regionValue),
          err |-> NoErr]

ZoneCall(nodeVM) == [op |-> "IsInZoneRegion", node |-> nodeVM.id, list |-> "none"]

\* nodes.go 120-134, from node i on
RECURSIVE ZoneRegionLoop(_, _, _, _, _, _)
ZoneRegionLoop(all, i, zoneValue, regionValue, nodeVMsInZoneAndRegion, calls) ==
    IF i > Len(all)
    THEN [vms |-> nodeVMsInZoneAndRegion, err |-> NoErr, calls |-> calls]
    ELSE LET nodeVM == all[i]
             r      == IsInZoneRegion(nodeVM, zoneValue, regionValue, Len(calls) + 1)
             calls2 == Append(calls, ZoneCall(nodeVM))
         IN  IF r.err # NoErr
             THEN [vms |-> NilSlice, err |-> r.err, calls |-> calls2]
             ELSE ZoneRegionLoop(all, i + 1, zoneValue, regionValue,
                                 IF r.in THEN Append(nodeVMsInZoneAndRegion, nodeVM)
                                         ELSE nodeVMsInZoneAndRegion,
                                 calls2)

\* nodes.go 120-134
getNodesInZoneRegion(all, zoneValue, regionValue, calls) ==
    ZoneRegionLoop(all, 1, zoneValue, regionValue, NilSlice, calls)

\* segments[key] of a Go map: the empty string when the key is absent
Segment(segments, key) == IF key \in DOMAIN segments THEN segments[key] ELSE ""

\* nodes.go 160-166: the segment map recorded against a datastore
AccessibleTopology(zone, region) ==
    [k \in {l \in {LabelZoneFailureDomain} : zone # ""}
              \cup {l \in {LabelRegionFailureDomain} : region # ""} |->
        IF k = LabelZoneFailureDomain THEN zone ELSE region]

\* make(map[string][]map[string]string), and the nil map
EmptyMap == [u \in {} |-> <<>>]
NilMap == EmptyMap

\* nodes.go 167: datastoreTopologyMap[url] = append(datastoreTopologyMap[url], t)
MapAppend(m, url, t) ==
    [u \in DOMAIN m \cup {url} |->
        IF u = url
        THEN (IF url \in DOMAIN m THEN Append(m[url], t) ELSE <<t>>)
        ELSE m[u]]

\* nodes.go 159-168, from datastore j on
RECURSIVE RecordTopology(_, _, _, _)
RecordTopology(m, datastores, j, t) ==
    IF j > Len(datastores)
    THEN m
    ELSE RecordTopology(MapAppend(m, datastores[j].url, t), datastores, j + 1, t)

\* mutant: best effort, the pass ends with what it accumulated and no error
TopologyFailBestEffort(sharedDatastores, datastoreTopologyMap, err, calls) ==
    [ds |-> sharedDatastores, topo |-> datastoreTopologyMap, err |-> NoErr, calls |-> calls]

\* nodes.go 148-151, 154-157: return nil, nil, err
TopologyFail(sharedDatastores, datastoreTopologyMap, err, calls) ==
    [ds |-> NilSlice, topo |-> NilMap, err |-> err, calls |-> calls]

\* mutant: a datastore already in the result list is not appended again
AppendNew(sharedDatastores, sharedDatastoresInZoneRegion) ==
    sharedDatastores \o
        SelectSeq(sharedDatastoresInZoneRegion,
                  LAMBDA d : \A i \in 1..Len(sharedDatastores) : sharedDatastores[i].url # d.url)

\* nodes.go 169: sharedDatastores = append(sharedDatastores, sharedDatastoresInZoneRegion...)
AppendAll(sharedDatastores, sharedDatastoresInZoneRegion) ==
    sharedDatastores \o sharedDatastoresInZoneRegion

\* nodes.go 142-171, from segment-set i on
RECURSIVE TopologyLoop(_, _, _, _, _, _)
TopologyLoop(all, topologyArr, i, sharedDatastores, datastoreTopologyMap, calls) ==
    IF i > Len(topologyArr)
    THEN [ds |-> sharedDatastores, topo |-> datastoreTopologyMap, err |-> NoErr,
          calls |-> calls]
    ELSE LET segments == topologyArr[i]
             zone     == Segment(segments, LabelZoneFailureDomain)
             region   == Segment(segments, LabelRegionFailureDomain)
             inZone   == getNodesInZoneRegion(all, zone, region, calls)
         IN  IF inZone.err # NoErr
             THEN TopologyFail(sharedDatastores, datastoreTopologyMap, inZone.err,
                               inZone.calls)
             ELSE LET shared == GetSharedDatastoresForVMs(inZone.vms, inZone.calls)
                      calls2 == shared.calls
                  IN  IF shared.err # NoErr
                      THEN TopologyFail(sharedDatastores, datastoreTopologyMap,
                                        shared.err, calls2)
                      ELSE TopologyLoop(all, topologyArr, i + 1,
                                        AppendAll(sharedDatastores, shared.ds),
                                        RecordTopology(datastoreTopologyMap, shared.ds, 1,
                                                       AccessibleTopology(zone, region)),
                                        calls2)

\* nodes.go 138-172
getSharedDatastoresInTopology(all, topologyArr, calls) ==
    TopologyLoop(all, topologyArr, 1, NilSlice, EmptyMap, calls)

\* the accessor calls of a pass, marked with the list the pass walked
Tagged(calls, list) ==
    [j \in 1..Len(calls) |->
        IF calls[j].list = "none" THEN [calls[j] EXCEPT !.list = list] ELSE calls[j]]

\* fmt.Errorf("Empty List of Node VMs returned from nodeManager")
EmptyNodeListErr == [kind |-> "EmptyNodeList", node |-> 0]
\* an error of cnsNodeManager.GetAllNodes()
GetAllNodesErr == [kind |-> "GetAllNodes", node |-> 0]

\* nodes.go 176: topologyRequirement != nil && topologyRequirement.GetPreferred() != nil
UsePreferred(req) == ~req.isNil /\ ~req.preferred.isNil

\* mutant: the requisite list is walked whenever it is present
UseRequisiteAlways(sharedDatastores, req) == ~req.isNil /\ ~req.requisite.isNil

\* nodes.go 184
UseRequisite(sharedDatastores, req) ==
    Len(sharedDatastores) = 0 /\ ~req.isNil /\ ~req.requisite.isNil

\* nodes.go 106-193
GetSharedDatastoresInTopology(registryAnswer, req) ==
    IF registryAnswer.err # NoErr
    THEN [ds |-> NilSlice, topo |-> NilMap, err |-> registryAnswer.err, calls |-> <<>>,
          used |-> "none"]
    ELSE IF Len(registryAnswer.nodes) = 0
    THEN [ds |-> NilSlice, topo |-> NilMap, err |-> EmptyNodeListErr, calls |-> <<>>,
          used |-> "none"]
    ELSE LET p  == IF UsePreferred(req)
                   THEN getSharedDatastoresInTopology(registryAnswer.nodes, req.preferred.elems,
                                                      <<>>)
                   ELSE [ds |-> NilSlice, topo |-> EmptyMap, err |-> NoErr, calls |-> <<>>]
             pc == Tagged(p.calls, "preferred")
             u1 == IF UsePreferred(req) THEN "preferred" ELSE "none"
         IN  IF p.err # NoErr
             THEN [ds |-> NilSlice, topo |-> NilMap, err |-> p.err, calls |-> pc,
                   used |-> u1]
             ELSE IF UseRequisite(p.ds, req)
             THEN LET q  == getSharedDatastoresInTopology(registryAnswer.nodes,
                                                          req.requisite.elems, pc)
                      qc == Tagged(q.calls, "requisite")
                  IN  IF q.err # NoErr
                      THEN [ds |-> NilSlice, topo |-> NilMap, err |-> q.err,
                            calls |-> qc, used |-> "requisite"]
                      ELSE [ds |-> q.ds, topo |-> q.topo, err |-> NoErr, calls |-> qc,
                            used |-> "requisite"]
             ELSE [ds |-> p.ds, topo |-> p.topo, err |-> NoErr, calls |-> pc,
                   used |-> u1]

(***************************************************************************)
(* ConnectCNS, DisconnectCNS (cns.go)                                      *)
(***************************************************************************)
\* longest sequence of calls made on the VirtualCenter
MaxOps == 8

\* the nil *cns.Client
NilClient == 0

ConnectErr == [kind |-> "Connect", node |-> 0]
NewClientErr == [kind |-> "NewClient", node |-> 0]

\* cns.go 28-35: the new client, or nil and the error of cns.NewClient
NewCNSClient(ok, n) ==
    IF ok THEN [client |-> n + 1, err |-> NoErr]
          ELSE [client |-> NilClient, err |-> NewClientErr]

\* mutant: a client is created on every connect
AlwaysCreate(cnsClient) == TRUE

\* cns.go 44: vc.CnsClient == nil
NoClientYet(cnsClient) == cnsClient = NilClient

NoCall == [op |-> "none", err |-> NoErr, before |-> NilClient, createdBefore |-> 0]

\* cns.go 38-51; connectOk is the outcome of vc.Connect, clientOk that of
\* cns.NewClient
ConnectCNS ==
    /\ nOps < MaxOps
    /\ nOps' = nOps + 1
    /\ \E connectOk, clientOk \in BOOLEAN :
           IF ~connectOk
           THEN /\ lastCall' = [op |-> "ConnectCNS", err |-> ConnectErr,
                                before |-> CnsClient, createdBefore |-> created]
                /\ UNCHANGED <<CnsClient, Client, created, connectedSince>>
           ELSE /\ Client' = TRUE
                /\ IF NoClientYet(CnsClient)
                   THEN LET new == NewCNSClient(clientOk, created)
                        IN  /\ CnsClient' = new.client
                            /\ created' = IF new.err = NoErr THEN created + 1 ELSE created
                            /\ connectedSince' = (new.err = NoErr \/ connectedSince)
                            /\ lastCall' = [op |-> "ConnectCNS", err |-> new.err,
                                            before |-> CnsClient,
                                            createdBefore |-> created]
                   ELSE /\ UNCHANGED <<CnsClient, created>>
                        /\ connectedSince' = TRUE
                        /\ lastCall' = [op |-> "ConnectCNS", err |-> NoErr,
                                        before |-> CnsClient, createdBefore |-> created]
    /\ UNCHANGED <<varsVMs, varsTopo, failAt, varsNodes>>

\* cns.go 55-59: the client after DisconnectCNS
Disconnected(cnsClient) == IF cnsClient = NilClient THEN cnsClient ELSE NilClient

\* cns.go 54-60
DisconnectCNS ==
    /\ nOps < MaxOps
    /\ nOps' = nOps + 1
    /\ CnsClient' = Disconnected(CnsClient)
    /\ connectedSince' = FALSE
    /\ lastCall' = [op |-> "DisconnectCNS", err |-> NoErr, before |-> CnsClient,
                    createdBefore |-> created]
    /\ UNCHANGED <<Client, created, varsVMs, varsTopo, failAt, varsNodes>>

(***************************************************************************)
(* SpecTopo                                                                *)
(***************************************************************************)
\* longest registry snapshot handed to GetSharedDatastoresInTopology
MaxTopoNodes == 2
\* longest preferred list
MaxPreferred == 1
\* longest requisite list
MaxRequisite == 2

Zones == {"east", "west"}

\* the accessible lists the nodes of a snapshot report
TopoUrlLists == { <<>>, <<"x", "y">>, <<"y", "z">> }

\* answers of GetAllNodes: a snapshot of k nodes
RegistryAnswers(k) ==
    { [nodes |-> [i \in 1..k |-> VM(i, f[i][1], f[i][2])], err |-> NoErr] :
        f \in [1..k -> Zones \X TopoUrlLists] }

\* the segment-sets of a requirement: a zone with a region, and a zone alone
SegmentsEast == (LabelZoneFailureDomain :> "east") @@ (LabelRegionFailureDomain :> "us")
SegmentsWest == (LabelZoneFailureDomain :> "west")
TopologySegments == { SegmentsEast, SegmentsWest }

\* GetPreferred() / GetRequisite(): nil, or a list of segment-sets
TopologyLists(n) ==
    { [isNil |-> TRUE, elems |-> <<>>] }
        \cup UNION { { [isNil |-> FALSE, elems |-> l] : l \in [1..k -> TopologySegments] } :
                     k \in 0..n }

NilTopologyList == [isNil |-> TRUE, elems |-> <<>>]

NilRequirement ==
    [isNil |-> TRUE, preferred |-> NilTopologyList, requisite |-> NilTopologyList]

TopologyRequirements ==
    { [isNil |-> FALSE, preferred |-> p, requisite |-> q] :
        p \in TopologyLists(MaxPreferred), q \in TopologyLists(MaxRequisite) }
        \cup { NilRequirement }

NotCalled == [called |-> FALSE, ds |-> NilSlice, err |-> NoErr, calls |-> <<>>]

TopoNotCalled ==
    [called |-> FALSE, ds |-> NilSlice, topo |-> NilMap, err |-> NoErr, calls |-> <<>>,
     used |-> "none"]

(***************************************************************************)
(* GetSharedDatastoresInK8SCluster                                         *)
(***************************************************************************)
\* nodes.go 197-215
GetSharedDatastoresInK8SCluster(registryAnswer) ==
    IF registryAnswer.err # NoErr
    THEN [ds |-> NilSlice, err |-> registryAnswer.err, calls |-> <<>>]
    ELSE IF Len(registryAnswer.nodes) = 0
    THEN [ds |-> <<>>, err |-> EmptyNodeListErr, calls |-> <<>>]
    ELSE LET shared == GetSharedDatastoresForVMs(registryAnswer.nodes, <<>>)
         IN  IF shared.err # NoErr
             THEN [ds |-> NilSlice, err |-> shared.err, calls |-> shared.calls]
             ELSE [ds |-> shared.ds, err |-> NoErr, calls |-> shared.calls]

(***************************************************************************)
(* The membership listener and the node registry                           *)
(***************************************************************************)
\* node names and provider identifiers of the node objects of the event
\* stream; the empty string is an absent field
NodeNames == {"n1", "n2", ""}
ProviderIDs == {"vsphere://u1", "vsphere://u2", "aws://i-1", ""}

\* event payloads: an object of another type, a nil *v1.Node, a node
NotANode == [kind |-> "other", name |-> "", providerID |-> ""]
NilNode == [kind |-> "nilNode", name |-> "", providerID |-> ""]
Payloads ==
    { NotANode, NilNode }
        \cup { [kind |-> "node", name |-> n, providerID |-> p] :
                 n \in NodeNames, p \in ProviderIDs }

\* common.GetUUIDFromProviderID: the identifier without its vsphere:// prefix
GetUUIDFromProviderID(providerID) ==
    CASE providerID = "vsphere://u1" -> "u1"
      [] providerID = "vsphere://u2" -> "u2"
      [] OTHER -> providerID

\* the virtual machines the provider knows, by UUID
KnownUUIDs == {"u1", "u2"}
VMOf(uuid) == IF uuid = "u1" THEN VM(1, "east", <<"x", "y">>) ELSE VM(2, "west", <<"y", "z">>)
NoVM == VM(0, "", <<>>)

ResolutionErr == [kind |-> "Resolution", node |-> 0]
EmptyRegistryErr == [kind |-> "EmptyRegistry", node |-> 0]

\* RegisterNode, first half: the provider identifier is resolved to a VM
\* handle; found is whether the provider finds the VM this time
ResolveHandle(uuid, found) ==
    IF uuid \in KnownUUIDs /\ found
    THEN [vm |-> VMOf(uuid), err |-> NoErr]
    ELSE [vm |-> NoVM, err |-> ResolutionErr]

\* RegisterNode, second half: insert or overwrite the entry under name
InsertEntry(entries, name, vm) ==
    { e \in entries : e.name # name } \cup { [name |-> name, vm |-> vm] }

\* UnregisterNode: remove the entry under name
RemoveEntry(entries, name) == { e \in entries : e.name # name }

\* the handle registered under name, NoVM when there is none
HandleOf(entries, name) ==
    IF \E e \in entries : e.name = name
    THEN (CHOOSE e \in entries : e.name = name).vm
    ELSE NoVM

IsRegistered(entries, name) == \E e \in entries : e.name = name

\* mutant: the call returns with the lock still held
UnlockForgotten(holder) == holder

\* the lock when the call that took it returns
Unlocked(holder) == "free"

\* the orders in which a snapshot can list the entries
SnapshotOrders(entries) ==
    { o \in [1..Cardinality(entries) -> entries] :
        \A i, j \in 1..Cardinality(entries) : o[i] = o[j] => i = j }

\* GetAllNodes: a copy of the registered handles, an error when there is none
GetAllNodes(order) ==
    IF Len(order) = 0
    THEN [nodes |-> NilSlice, err |-> EmptyRegistryErr]
    ELSE [nodes |-> [i \in 1..Len(order) |-> order[i].vm], err |-> NoErr]

\* nodes.go 57: node, ok := obj.(*v1.Node)
AssertedNodeIsNil(obj) == obj.kind # "node"
AssertionOk(obj) == obj.kind \in {"node", "nilNode"}

\* mutant: only the type assertion is tested
UnrecognizedUnlessOk(obj) == ~AssertionOk(obj)

\* nodes.go 58, 70: node == nil || !ok
Unrecognized(obj) == AssertedNodeIsNil(obj) \/ ~AssertionOk(obj)

\* mutant: the node is registered under its UUID
RegisterArgsByUUID(node) ==
    [uuid |-> GetUUIDFromProviderID(node.providerID),
     name |-> GetUUIDFromProviderID(node.providerID)]

\* nodes.go 62: the arguments of RegisterNode
RegisterArgs(node) ==
    [uuid |-> GetUUIDFromProviderID(node.providerID), name |-> node.name]

ListenerIdle ==
    [pc |-> "idle", op |-> "none", obj |-> NotANode, name |-> "", uuid |-> "",
     vm |-> NoVM, outcome |-> "none", wasRegistered |-> FALSE, replaced |-> NoVM,
     countBefore |-> 0]

\* nodes.go 56-62: an add event up to the call of RegisterNode
nodeAdd ==
    /\ listener.pc = "idle"
    /\ \E obj \in Payloads :
           IF Unrecognized(obj)
           THEN /\ listener' = [ListenerIdle EXCEPT !.op = "add", !.obj = obj,
                                                   !.outcome = "dropped"]
                /\ UNCHANGED panicked
           ELSE IF AssertedNodeIsNil(obj)
           THEN /\ listener' = [ListenerIdle EXCEPT !.pc = "crashed", !.op = "add",
                                                   !.obj = obj]
                /\ panicked' = TRUE
           ELSE /\ listener' = [ListenerIdle EXCEPT !.pc = "resolve", !.op = "add",
                                                   !.obj = obj,
                                                   !.name = RegisterArgs(obj).name,
                                                   !.uuid = RegisterArgs(obj).uuid,
                                                   !.outcome = "pending"]
                /\ UNCHANGED panicked
    /\ UNCHANGED <<registry, lock, resolver>>
    /\ UNCHANGED <<varsVMs, varsTopo, failAt, varsCNS>>

\* nodes.go 68-74: a delete event up to the call of UnregisterNode
nodeDelete ==
    /\ listener.pc = "idle"
    /\ \E obj \in Payloads :
           IF Unrecognized(obj)
           THEN /\ listener' = [ListenerIdle EXCEPT !.op = "delete", !.obj = obj,
                                                   !.outcome = "dropped"]
                /\ UNCHANGED panicked
           ELSE IF AssertedNodeIsNil(obj)
           THEN /\ listener' = [ListenerIdle EXCEPT !.pc = "crashed", !.op = "delete",
                                                   !.obj = obj]
                /\ panicked' = TRUE
           ELSE /\ listener' = [ListenerIdle EXCEPT !.pc = "lock", !.op = "delete",
                                                   !.obj = obj, !.name = obj.name,
                                                   !.outcome = "pending"]
                /\ UNCHANGED panicked
    /\ UNCHANGED <<registry, lock, resolver>>
    /\ UNCHANGED <<varsVMs, varsTopo, failAt, varsCNS>>

\* RegisterNode resolves the handle, outside the lock; nodes.go 63-65 logs a
\* failure and returns
RegisterNodeResolve ==
    /\ listener.pc = "resolve"
    /\ \E found \in BOOLEAN :
           LET r == ResolveHandle(listener.uuid, found)
           IN  IF r.err # NoErr
               THEN listener' = [listener EXCEPT !.pc = "idle",
                                                 !.outcome = "registerFailed"]
               ELSE listener' = [listener EXCEPT !.pc = "lock", !.vm = r.vm]
    /\ UNCHANGED <<registry, lock, resolver, panicked>>
    /\ UNCHANGED <<varsVMs, varsTopo, failAt, varsCNS>>

\* RegisterNode / UnregisterNode take the registry lock
RegistryLock ==
    /\ listener.pc = "lock"
    /\ lock = "free"
    /\ lock' = "listener"
    /\ listener' = [listener EXCEPT !.pc = "mutate"]
    /\ UNCHANGED <<registry, resolver, panicked>>
    /\ UNCHANGED <<varsVMs, varsTopo, failAt, varsCNS>>

\* RegisterNode / UnregisterNode change the map, release the lock and
\* return; nodes.go 63-65, 75-77 log an error
RegistryMutate ==
    /\ listener.pc = "mutate"
    /\ lock' = Unlocked(lock)
    /\ IF listener.op = "add"
       THEN /\ registry' = InsertEntry(registry, listener.name, listener.vm)
            /\ listener' = [listener EXCEPT
                               !.pc = "idle", !.outcome = "registered",
                               !.wasRegistered = IsRegistered(registry, listener.name),
                               !.replaced = HandleOf(registry, listener.name),
                               !.countBefore = Cardinality(registry)]
       ELSE IF IsRegistered(registry, listener.name)
       THEN /\ registry' = RemoveEntry(registry, listener.name)
            /\ listener' = [listener EXCEPT !.pc = "idle", !.outcome = "unregistered"]
       ELSE /\ registry' = registry
            /\ listener' = [listener EXCEPT !.pc = "idle",
                                            !.outcome = "unregisterFailed"]
    /\ UNCHANGED <<resolver, panicked>>
    /\ UNCHANGED <<varsVMs, varsTopo, failAt, varsCNS>>

\* the requirement of the topology requests of SpecNodes
RequisiteEastWest ==
    [isNil |-> FALSE, preferred |-> NilTopologyList,
     requisite |-> [isNil |-> FALSE, elems |-> <<SegmentsEast, SegmentsWest>>]]

ResolverIdle ==
    [pc |-> "idle", api |-> "none", answer |-> [nodes |-> NilSlice, err |-> NoErr],
     pending |-> 0]

\* nodes.go 106, 197: a resolution request arrives
ResolverCall ==
    /\ resolver.pc = "idle"
    /\ \E api \in {"GetSharedDatastoresInK8SCluster", "GetSharedDatastoresInTopology"} :
           resolver' = [ResolverIdle EXCEPT !.pc = "getAllNodes", !.api = api]
    /\ UNCHANGED <<registry, lock, listener, panicked>>
    /\ UNCHANGED <<varsVMs, varsTopo, failAt, varsCNS>>

\* nodes.go 108, 198: GetAllNodes takes the registry lock
GetAllNodesLock ==
    /\ resolver.pc = "getAllNodes"
    /\ lock = "free"
    /\ lock' = "resolver"
    /\ resolver' = [resolver EXCEPT !.pc = "copy"]
    /\ UNCHANGED <<registry, listener, panicked>>
    /\ UNCHANGED <<varsVMs, varsTopo, failAt, varsCNS>>

\* GetAllNodes copies the handles, releases the lock and returns
GetAllNodesCopy ==
    /\ resolver.pc = "copy"
    /\ lock' = Unlocked(lock)
    /\ \E order \in SnapshotOrders(registry) :
           resolver' = [resolver EXCEPT !.pc = "run", !.answer = GetAllNodes(order)]
    /\ UNCHANGED <<registry, listener, panicked>>
    /\ UNCHANGED <<varsVMs, varsTopo, failAt, varsCNS>>

\* nodes.go 109-191, 199-213: the request goes on with its snapshot, up to
\* its first accessor call or to its return; pending counts the accessor
\* calls it is going to make
ResolverRun ==
    /\ resolver.pc = "run"
    /\ LET run == IF resolver.api = "GetSharedDatastoresInK8SCluster"
                  THEN GetSharedDatastoresInK8SCluster(resolver.answer).calls
                  ELSE GetSharedDatastoresInTopology(resolver.answer,
                                                     RequisiteEastWest).calls
       IN  resolver' = [resolver EXCEPT
                           !.pc = IF Len(run) > 0 THEN "accessor" ELSE "return",
                           !.pending = Len(run)]
    /\ UNCHANGED <<registry, lock, listener, panicked>>
    /\ UNCHANGED <<varsVMs, varsTopo, failAt, varsCNS>>

\* nodes.go 124, 222: one accessor call of the request returns
AccessorReturns ==
    /\ resolver.pc = "accessor"
    /\ resolver' = [resolver EXCEPT
                       !.pc = IF resolver.pending = 1 THEN "return" ELSE "accessor",
                       !.pending = resolver.pending - 1]
    /\ UNCHANGED <<registry, lock, listener, panicked>>
    /\ UNCHANGED <<varsVMs, varsTopo, failAt, varsCNS>>

\* nodes.go 192, 214: the request returns
ResolverReturn ==
    /\ resolver.pc = "return"
    /\ resolver' = ResolverIdle
    /\ UNCHANGED <<registry, lock, listener, panicked>>
    /\ UNCHANGED <<varsVMs, varsTopo, failAt, varsCNS>>

\* the parts of the state a specification leaves alone
IdleVMs == nodeVMs = <<>> /\ vmsResult = NotCalled
IdleTopo ==
    /\ allNodes = [nodes |-> NilSlice, err |-> NoErr]
    /\ topologyRequirement = NilRequirement
    /\ topoResult = TopoNotCalled
IdleCNS ==
    /\ CnsClient = NilClient
    /\ Client = FALSE
    /\ created = 0
    /\ connectedSince = FALSE
    /\ lastCall = NoCall
    /\ nOps = 0
IdleNodes ==
    /\ registry = {}
    /\ lock = "free"
    /\ listener = ListenerIdle
    /\ resolver = ResolverIdle
    /\ panicked = FALSE

InitTopo ==
    /\ \/ \E k \in 0..MaxTopoNodes : allNodes \in RegistryAnswers(k)
       \/ allNodes = [nodes |-> NilSlice, err |-> GetAllNodesErr]
    /\ topologyRequirement \in TopologyRequirements
    /\ topoResult = TopoNotCalled
    /\ failAt = 0
    /\ IdleVMs
    /\ IdleCNS
    /\ IdleNodes

\* the accessor is set to fail one of the calls the run is going to make
FailAccessorTopo ==
    /\ ~topoResult.called
    /\ failAt = 0
    /\ \E f \in 1..Len(GetSharedDatastoresInTopology(allNodes, topologyRequirement).calls) :
           failAt' = f
    /\ UNCHANGED <<varsTopo, varsVMs, varsCNS, varsNodes>>

CallGetSharedDatastoresInTopology ==
    /\ ~topoResult.called
    /\ LET r == GetSharedDatastoresInTopology(allNodes, topologyRequirement)
       IN  topoResult' = [called |-> TRUE, ds |-> r.ds, topo |-> r.topo, err |-> r.err,
                          calls |-> r.calls, used |-> r.used]
    /\ UNCHANGED <<allNodes, topologyRequirement, varsVMs, failAt, varsCNS, varsNodes>>

NextTopo == FailAccessorTopo \/ CallGetSharedDatastoresInTopology

SpecTopo == InitTopo /\ [][NextTopo]_vars

(***************************************************************************)
(* SpecVMs                                                                 *)
(***************************************************************************)
InitVMs ==
    /\ \E k \in 0..MaxNodes :
           \E f \in [1..k -> UrlLists(MaxDatastores)] :
               nodeVMs = [i \in 1..k |-> VM(i, "east", f[i])]
    /\ vmsResult = NotCalled
    /\ failAt = 0
    /\ IdleTopo
    /\ IdleCNS
    /\ IdleNodes

\* the accessor is set to fail one of the calls the run is going to make
FailAccessorVMs ==
    /\ ~vmsResult.called
    /\ failAt = 0
    /\ \E f \in 1..Len(GetSharedDatastoresForVMs(nodeVMs, <<>>).calls) : failAt' = f
    /\ UNCHANGED <<varsVMs, varsTopo, varsCNS, varsNodes>>

CallGetSharedDatastoresForVMs ==
    /\ ~vmsResult.called
    /\ LET r == GetSharedDatastoresForVMs(nodeVMs, <<>>)
       IN  vmsResult' = [called |-> TRUE, ds |-> r.ds, err |-> r.err, calls |-> r.calls]
    /\ UNCHANGED <<nodeVMs, varsTopo, failAt, varsCNS, varsNodes>>

NextVMs == FailAccessorVMs \/ CallGetSharedDatastoresForVMs

SpecVMs == InitVMs /\ [][NextVMs]_vars

(***************************************************************************)
(* SpecCNS                                                                 *)
(***************************************************************************)
InitCNS ==
    /\ IdleCNS
    /\ failAt = 0
    /\ IdleVMs
    /\ IdleTopo
    /\ IdleNodes

NextCNS == ConnectCNS \/ DisconnectCNS

SpecCNS == InitCNS /\ [][NextCNS]_vars

(***************************************************************************)
(* SpecNodes                                                               *)
(***************************************************************************)
InitNodes ==
    /\ IdleNodes
    /\ failAt = 0
    /\ IdleVMs
    /\ IdleTopo
    /\ IdleCNS

NextNodes ==
    \/ nodeAdd
    \/ nodeDelete
    \/ RegisterNodeResolve
    \/ RegistryLock
    \/ RegistryMutate
    \/ ResolverCall
    \/ GetAllNodesLock
    \/ GetAllNodesCopy
    \/ ResolverRun
    \/ AccessorReturns
    \/ ResolverReturn

SpecNodes == InitNodes /\ [][NextNodes]_vars

(***************************************************************************)
(* Claims about GetSharedDatastoresForVMs (SpecVMs)                        *)
(***************************************************************************)
UrlSet(vm) == { vm.urls[i] : i \in 1..Len(vm.urls) }

\* the first node's datastore objects whose URL every other node reports
DatastoresOf(vm) == [i \in 1..Len(vm.urls) |-> [url |-> vm.urls[i], host |-> vm.id]]

C1_Expected ==
    SelectSeq(DatastoresOf(nodeVMs[1]),
              LAMBDA d : \A j \in 2..Len(nodeVMs) : d.url \in UrlSet(nodeVMs[j]))

\* C1: a successful call on a non-empty node list returns exactly the first
\* node's accessible datastores restricted to the URLs every other node
\* reports, in the first node's order; when all nodes report one same
\* non-empty set, the result is the first node's whole list.
C1_IntersectIsFirstNodeRestricted ==
    (vmsResult.called /\ Len(nodeVMs) > 0 /\ vmsResult.err = NoErr) =>
        /\ vmsResult.ds = C1_Expected
        /\ (\A j \in 1..Len(nodeVMs) : UrlSet(nodeVMs[j]) = UrlSet(nodeVMs[1])) =>
               vmsResult.ds = DatastoresOf(nodeVMs[1])

\* a successful call over three nodes that dropped a datastore of the first
\* node and kept another
C1_Witness ==
    /\ vmsResult.called
    /\ vmsResult.err = NoErr
    /\ Len(nodeVMs) = 3
    /\ Len(vmsResult.ds) > 0
    /\ Len(vmsResult.ds) < Len(nodeVMs[1].urls)
    /\ nodeVMs[2].urls # nodeVMs[1].urls

\* C2 as stated: a call with an empty node list fails with an error.
C2_EmptyListFails ==
    (vmsResult.called /\ Len(nodeVMs) = 0) => vmsResult.err # NoErr

\* C2 as amended: a call with an empty node list makes no accessor call and
\* returns the nil list with no error.
C2_EmptyListSucceedsEmpty ==
    (vmsResult.called /\ Len(nodeVMs) = 0) =>
        /\ vmsResult.err = NoErr
        /\ vmsResult.ds = NilSlice
        /\ vmsResult.calls = <<>>

C2_Witness == vmsResult.called /\ Len(nodeVMs) = 0

\* the URLs common to the first k nodes
RECURSIVE RunningUrls(_)
RunningUrls(k) ==
    IF k = 1 THEN UrlSet(nodeVMs[1]) ELSE RunningUrls(k - 1) \cap UrlSet(nodeVMs[k])

\* k is the first node, in list order, at which the intersection of the
\* sets fetched so far is empty; no fetch up to k failed
FirstEmptyAt(k) ==
    /\ k \in 1..Len(nodeVMs)
    /\ failAt = 0 \/ failAt > k
    /\ RunningUrls(k) = {}
    /\ \A i \in 1..(k - 1) : RunningUrls(i) # {}

\* C3: when the running intersection becomes empty at node k (a first node
\* with an empty set included), the call fails with the no-shared-datastores
\* error naming node k, and the accessor was called for nodes 1..k only.
C3_EmptyIntersectionShortCircuits ==
    vmsResult.called =>
        \A k \in 1..Len(nodeVMs) :
            FirstEmptyAt(k) =>
                /\ vmsResult.err = NoSharedDatastoresErr(nodeVMs[k].id)
                /\ vmsResult.ds = NilSlice
                /\ vmsResult.calls = [i \in 1..k |-> DsCall(nodeVMs[i])]

\* the intersection collapsed at the second of three nodes, and the third
\* could have refilled it
C3_Witness ==
    /\ vmsResult.called
    /\ Len(nodeVMs) = 3
    /\ FirstEmptyAt(2)
    /\ nodeVMs[3].urls # <<>>
    /\ vmsResult.err.kind = "NoSharedDatastores"

(***************************************************************************)
(* Claims about GetSharedDatastoresInTopology (SpecTopo)                   *)
(***************************************************************************)
\* the run reached the two topology passes: the registry answered with nodes
TopoRan == topoResult.called /\ allNodes.err = NoErr /\ Len(allNodes.nodes) > 0

PreferredGiven == ~topologyRequirement.isNil /\ ~topologyRequirement.preferred.isNil
RequisiteGiven == ~topologyRequirement.isNil /\ ~topologyRequirement.requisite.isNil

\* what the pass over the preferred list computes, as the first pass of the run
PreferredPass ==
    getSharedDatastoresInTopology(allNodes.nodes, topologyRequirement.preferred.elems, <<>>)

\* what a pass over the requisite list computes once the preferred pass is over
RequisitePass ==
    getSharedDatastoresInTopology(allNodes.nodes, topologyRequirement.requisite.elems,
                                  IF PreferredGiven THEN PreferredPass.calls ELSE <<>>)

RequisiteCalls ==
    { j \in 1..Len(topoResult.calls) : topoResult.calls[j].list = "requisite" }

\* C4: when the preferred list yields a datastore, no accessor call is made
\* for the requisite list and the result is the preferred pass's list and
\* map; the requisite list is walked only after a preferred pass that
\* produced no datastore, and its result is then returned as it is.
C4_PreferredTakesPrecedence ==
    TopoRan =>
        /\ (PreferredGiven /\ PreferredPass.err = NoErr /\ Len(PreferredPass.ds) > 0) =>
               /\ RequisiteCalls = {}
               /\ topoResult.used = "preferred"
               /\ topoResult.err = NoErr
               /\ topoResult.ds = PreferredPass.ds
               /\ topoResult.topo = PreferredPass.topo
        /\ (topoResult.used = "requisite" \/ RequisiteCalls # {}) =>
               /\ RequisiteGiven
               /\ PreferredGiven => (PreferredPass.err = NoErr /\ Len(PreferredPass.ds) = 0)
        /\ (topoResult.used = "requisite" /\ topoResult.err = NoErr) =>
               /\ topoResult.ds = RequisitePass.ds
               /\ topoResult.topo = RequisitePass.topo

\* the preferred list yields a datastore while the requisite list would
\* yield a longer, different list
C4_Witness ==
    /\ TopoRan
    /\ failAt = 0
    /\ PreferredGiven
    /\ Len(PreferredPass.ds) > 0
    /\ RequisiteGiven
    /\ RequisitePass.err = NoErr
    /\ Len(RequisitePass.ds) > Len(PreferredPass.ds)
    /\ topoResult.ds = PreferredPass.ds

\* the list of segment-sets the run returned a result for
UsedList ==
    IF topoResult.used = "preferred" THEN topologyRequirement.preferred.elems
    ELSE IF topoResult.used = "requisite" THEN topologyRequirement.requisite.elems
    ELSE <<>>

\* the nodes of the snapshot that reside in a segment-set's zone and region
PartitionOf(segments) ==
    SelectSeq(allNodes.nodes,
              LAMBDA vm :
                  /\ LabelZoneFailureDomain \in DOMAIN segments =>
                         vm.zone = segments[LabelZoneFailureDomain]
                  /\ LabelRegionFailureDomain \in DOMAIN segments =>
                         VMRegion = segments[LabelRegionFailureDomain])

\* the datastores of a partition's first node that all its nodes reach
PartitionIntersection(segments) ==
    LET part == PartitionOf(segments)
    IN  IF Len(part) = 0
        THEN <<>>
        ELSE SelectSeq(DatastoresOf(part[1]),
                       LAMBDA d : \A j \in 2..Len(part) : d.url \in UrlSet(part[j]))

RECURSIVE ConcatIntersections(_, _)
ConcatIntersections(list, i) ==
    IF i > Len(list)
    THEN <<>>
    ELSE PartitionIntersection(list[i]) \o ConcatIntersections(list, i + 1)

\* a segment-set's descriptor: its zone and region labels
SegmentDescriptor(segments) ==
    [k \in DOMAIN segments \cap {LabelZoneFailureDomain, LabelRegionFailureDomain} |->
        segments[k]]

\* the descriptors, in list order, of the segment-sets whose partition
\* intersection holds url
DescriptorsOf(list, url) ==
    LET holds == SelectSeq([i \in 1..Len(list) |-> i],
                           LAMBDA i :
                               \E j \in 1..Len(PartitionIntersection(list[i])) :
                                   PartitionIntersection(list[i])[j].url = url)
    IN  [j \in 1..Len(holds) |-> SegmentDescriptor(list[holds[j]])]

\* C5: a successful run returns the concatenation, in segment-set order, of
\* the partition intersections, duplicates kept, and a map that sends each
\* URL of the list to the descriptors of the segment-sets whose partition
\* intersection holds it, in segment-set order.
C5_ConcatenationAndTopologyMap ==
    (TopoRan /\ topoResult.err = NoErr) =>
        /\ topoResult.ds = ConcatIntersections(UsedList, 1)
        /\ DOMAIN topoResult.topo = { topoResult.ds[j].url : j \in 1..Len(topoResult.ds) }
        /\ \A u \in DOMAIN topoResult.topo :
               topoResult.topo[u] = DescriptorsOf(UsedList, u)

\* two segment-sets yielding x, y and y, z: the list is x, y, y, z and y is
\* mapped to both descriptors
C5_Witness ==
    /\ TopoRan
    /\ topoResult.err = NoErr
    /\ Len(UsedList) = 2
    /\ [j \in 1..Len(topoResult.ds) |-> topoResult.ds[j].url] = <<"x", "y", "y", "z">>
    /\ Len(topoResult.topo["y"]) = 2
    /\ topoResult.topo["y"][1] # topoResult.topo["y"][2]
    /\ Len(topoResult.topo["x"]) = 1

\* C6: when an accessor call of the run fails, it is the last call of the
\* run and the run returns that error with the nil list and the nil map.
C6_AccessorFailureAborts ==
    topoResult.called =>
        \A j \in 1..Len(topoResult.calls) :
            j = failAt =>
                /\ j = Len(topoResult.calls)
                /\ topoResult.err = AccessorErr(topoResult.calls[j].node)
                /\ topoResult.ds = NilSlice
                /\ topoResult.topo = NilMap

\* a fetch fails in the second segment-set of a list whose first segment-set
\* had produced datastores
C6_Witness ==
    /\ TopoRan
    /\ failAt > 0
    /\ failAt = Len(topoResult.calls)
    /\ topoResult.err.kind = "accessor"
    /\ topoResult.calls[failAt].op = "GetAllAccessibleDatastores"
    /\ topoResult.used = "requisite"
    /\ Len(UsedList) = 2
    /\ Len(PartitionIntersection(UsedList[1])) > 0
    /\ \E j \in 1..(failAt - 1) :
           /\ topoResult.calls[j].op = "GetAllAccessibleDatastores"
           /\ topoResult.calls[j].list = "requisite"

(***************************************************************************)
(* Claims about the CNS client of a VirtualCenter (SpecCNS)                *)
(***************************************************************************)
(***************************************************************************)
(* C7                                                                      *)
(***************************************************************************)
\* RegisterNode has been invoked by the callback in progress or the last one
RegisterNodeInvoked ==
    /\ listener.op = "add"
    /\ \/ listener.pc \in {"resolve", "lock", "mutate"}
       \/ listener.outcome \in {"registered", "registerFailed"}

\* the payload is not a node, or its provider identifier or name is
\* malformed or absent
Malformed(obj) ==
    \/ obj.kind # "node"
    \/ obj.name = ""
    \/ GetUUIDFromProviderID(obj.providerID) \notin KnownUUIDs

\* C7 as stated: an add event whose payload is not a node object, or whose
\* provider identifier or name is malformed or absent, is dropped: RegisterNode
\* is not invoked, the registry is unchanged, no error reaches the event source
C7_MalformedAddDropped ==
    (listener.op = "add" /\ Malformed(listener.obj)) =>
        /\ ~RegisterNodeInvoked
        /\ listener.pc = "idle" /\ listener.outcome = "dropped"
        /\ ~panicked

\* C7 amended: an add event whose payload is not a node object, or is a nil
\* node, is dropped: RegisterNode is not invoked, the callback returns at once
\* and nothing reaches the event source; a node object is handed to
\* RegisterNode with the UUID of its provider identifier and its name, neither
\* of them validated, and a failure of RegisterNode is not propagated
C7_UnrecognizedAddDropped ==
    /\ ~panicked
    /\ listener.pc # "crashed"
    /\ (listener.op = "add" /\ listener.obj.kind # "node") =>
           /\ ~RegisterNodeInvoked
           /\ listener.pc = "idle" /\ listener.outcome = "dropped"
    /\ (listener.op = "add" /\ listener.obj.kind = "node") =>
           /\ RegisterNodeInvoked
           /\ listener.name = listener.obj.name
           /\ listener.uuid = GetUUIDFromProviderID(listener.obj.providerID)

C7_Witness ==
    /\ listener.op = "add"
    /\ listener.obj = NilNode
    /\ listener.outcome = "dropped"
    /\ registry # {}

(***************************************************************************)
(* C8                                                                      *)
(***************************************************************************)
\* C8: the registry holds at most one entry per node name; an add for a
\* registered name whose handle resolves overwrites the entry with the latest
\* handle and leaves the number of nodes GetAllNodes returns unchanged
C8_OneEntryPerName ==
    /\ \A e1, e2 \in registry : e1.name = e2.name => e1 = e2
    /\ (listener.op = "add" /\ listener.outcome = "registered") =>
           /\ { e \in registry : e.name = listener.obj.name }
                  = { [name |-> listener.obj.name, vm |-> listener.vm] }
           /\ listener.wasRegistered =>
                  \A o \in SnapshotOrders(registry) :
                      Len(GetAllNodes(o).nodes) = listener.countBefore

C8_Witness ==
    /\ listener.op = "add"
    /\ listener.outcome = "registered"
    /\ listener.wasRegistered
    /\ listener.replaced # listener.vm
    /\ listener.countBefore = 2
    /\ Cardinality(registry) = 2

(***************************************************************************)
(* C9                                                                      *)
(***************************************************************************)
\* C9: the registry lock is never held across an accessor call: while a
\* request waits on an accessor call a membership event can take the lock and
\* finish its RegisterNode / UnregisterNode, a request can take its snapshot
\* while a callback is outside the map mutation, and whoever holds the lock
\* can release it
C9_LockNotHeldAcrossAccessor ==
    /\ lock = "resolver" => resolver.pc = "copy"
    /\ lock = "listener" => listener.pc = "mutate"
    /\ (resolver.pc = "accessor" /\ listener.pc = "lock") => ENABLED RegistryLock
    /\ (resolver.pc = "accessor" /\ listener.pc = "mutate") => ENABLED RegistryMutate
    /\ (resolver.pc = "getAllNodes" /\ listener.pc \in {"idle", "resolve"}) =>
           ENABLED GetAllNodesLock
    /\ lock # "free" => ENABLED (RegistryMutate \/ GetAllNodesCopy)

C9_Witness ==
    /\ resolver.pc = "accessor"
    /\ resolver.pending >= 2
    /\ lock = "listener"
    /\ listener.pc = "mutate"

\* C10: CnsClient is non-nil exactly when a ConnectCNS returned success since
\* the last DisconnectCNS; a failed ConnectCNS leaves CnsClient as it was, a
\* ConnectCNS that finds a client keeps it and creates none, and
\* DisconnectCNS leaves CnsClient nil.
C10_ClientIffConnected ==
    /\ (CnsClient # NilClient) <=> connectedSince
    /\ (lastCall.op = "ConnectCNS" /\ lastCall.err # NoErr) =>
           /\ CnsClient = lastCall.before
           /\ created = lastCall.createdBefore
    /\ (lastCall.op = "ConnectCNS" /\ lastCall.before # NilClient /\ lastCall.err = NoErr) =>
           /\ CnsClient = lastCall.before
           /\ created = lastCall.createdBefore
    /\ (lastCall.op = "ConnectCNS" /\ lastCall.before = NilClient /\ lastCall.err = NoErr) =>
           CnsClient # NilClient
    /\ lastCall.op = "DisconnectCNS" => CnsClient = NilClient

\* a ConnectCNS failed at Connect after a connect, a disconnect and a second
\* connect: the second client is still there
C10_Witness ==
    /\ lastCall.op = "ConnectCNS"
    /\ lastCall.err = ConnectErr
    /\ created = 2
    /\ CnsClient = 2
    /\ connectedSince

====
